---- MODULE Spec2Model ----
(***************************************************************************)
(* The local encrypted vault of the InStock terminal: key derivation,      *)
(* sealing and opening of the user record (services/cryptoService.ts),     *)
(* the login page that creates and unlocks the vault (LoginPage), the      *)
(* debounced autosave of App.tsx and the passphrase rotation of            *)
(* SettingsPage.tsx.                                                       *)
(*                                                                         *)
(* Text is modelled as sequences of one-character strings, buffers as      *)
(* sequences of bytes 0..255.  The platform primitives are idealised:      *)
(* PBKDF2 is an injective function of (passphrase, salt), AES-GCM is a     *)
(* keyed masking with a 16-byte tag that binds key, nonce and plaintext,   *)
(* and getRandomValues never returns the same bytes twice.  Key            *)
(* derivation and encryption always succeed; decryption is rejected when   *)
(* the tag does not verify.  Of the cloud (GitHub) session only what the   *)
(* autosave and the connect and disconnect buttons do to the session state *)
(* is covered (SpecModes); the GitHub service itself is not.               *)
(***************************************************************************)
EXTENDS Integers, Sequences, FiniteSets, Bags, TLC

\* ------------------------------------------------------------------ bounds
\* Number of encryptData calls one behaviour may make.
MaxSeals == 2

\* ------------------------------------------------------- program constants
SaltBytes == 16
IvBytes == 12
TagBytes == 16

\* The passphrases a user may type ("" is the empty input field).
Passphrases == {"", "p1", "p2"}
\* The contents of the login form's custom API key field (" " is blank text).
FormApiKeys == {"", " ", "k1"}
\* The contents the watchlist takes (0 is INITIAL_WATCHLIST).
Watchlists == {0, 1}
\* The API keys a record may hold.
ApiKeySeq == <<"", "k1">>
ApiKeys == {ApiKeySeq[i] : i \in 1..Len(ApiKeySeq)}

\* --------------------------------------------------------------- hex codec
HexChars == <<"0", "1", "2", "3", "4", "5", "6", "7",
              "8", "9", "a", "b", "c", "d", "e", "f">>

IsHexChar(c) == \E i \in 1..16 : HexChars[i] = c

HexVal(c) == CHOOSE v \in 0..15 : HexChars[v + 1] = c

\* parseInt's NaN; no input of the model parses to a negative number.
NaN == -1

\* String.prototype.substr(start, length) with a 0-based start.
substr(s, start, len) ==
    SubSeq(s, start + 1, IF start + len < Len(s) THEN start + len ELSE Len(s))

\* parseInt(s, 16) of a string of at most two characters: the value of its
\* longest prefix of hex digits, NaN when that prefix is empty.
parseInt16(s) ==
    IF Len(s) = 0 \/ ~IsHexChar(s[1]) THEN NaN
    ELSE IF Len(s) = 1 \/ ~IsHexChar(s[2]) THEN HexVal(s[1])
    ELSE 16 * HexVal(s[1]) + HexVal(s[2])

\* Storing a number into a Uint8Array: NaN becomes 0, others wrap modulo 256.
ToUint8(n) == IF n = NaN THEN 0 ELSE n % 256

ab2hex(buf) ==
    [j \in 1..(2 * Len(buf)) |->
        LET x == buf[(j + 1) \div 2]
        IN  IF j % 2 = 1 THEN HexChars[(x \div 16) + 1] ELSE HexChars[(x % 16) + 1]]

hex2ab(hex) ==
    [i \in 1..((Len(hex) + 1) \div 2) |->
        ToUint8(parseInt16(substr(hex, (i - 1) * 2, 2)))]

\* String.prototype.split(':').
RECURSIVE split(_)
split(s) ==
    IF \A i \in 1..Len(s) : s[i] # ":" THEN <<s>>
    ELSE LET i == CHOOSE k \in 1..Len(s) :
                     s[k] = ":" /\ \A j \in 1..(k - 1) : s[j] # ":"
         IN  <<SubSeq(s, 1, i - 1)>> \o split(SubSeq(s, i + 1, Len(s)))

\* An element of a destructured array; a missing element is undefined, which
\* the model writes as the empty text (both are falsy, and the code tests
\* every such element for truthiness before using it).
Undefined == <<>>
Elem(parts, k) == IF k <= Len(parts) THEN parts[k] ELSE Undefined

\* ------------------------------------------------------------ record codec
\* UserData as far as the vault sees it: the watchlist revision and
\* userSettings.customApiKey / userSettings.useCustomKey.
Records == [wl : Watchlists, apiKey : ApiKeys, useCustomKey : BOOLEAN]

ApiKeyCode(k) == CHOOSE i \in 1..Len(ApiKeySeq) : ApiKeySeq[i] = k

\* str2ab(JSON.stringify(data)): one byte per field.
str2ab(data) ==
    <<data.wl, ApiKeyCode(data.apiKey), IF data.useCustomKey THEN 1 ELSE 0>>

\* Text that JSON.parse accepts as a record.
IsRecordText(bytes) ==
    /\ Len(bytes) = 3
    /\ bytes[1] \in Watchlists
    /\ bytes[2] \in 1..Len(ApiKeySeq)
    /\ bytes[3] \in {0, 1}

\* JSON.parse(new TextDecoder().decode(bytes)).
JSONparse(bytes) ==
    [wl |-> bytes[1], apiKey |-> ApiKeySeq[bytes[2]], useCustomKey |-> (bytes[3] = 1)]

\* ------------------------------------------------------ platform primitives
\* A getRandomValues that returns the same bytes on every call.
FixedBytes(n, c) == [i \in 1..n |-> 0]

\* window.crypto.getRandomValues(new Uint8Array(n)), the c-th call of a run.
RandomBytes(n, c) == [i \in 1..n |-> IF i = n THEN c ELSE 0]

NoKey == [kind |-> "none", pw |-> "", salt |-> <<>>]

\* crypto.subtle.deriveKey with PBKDF2: the key is determined by, and
\* determines, the password and the salt bytes.
Pbkdf2(password, saltBuf) == [kind |-> "key", pw |-> password, salt |-> saltBuf]

PwCode(pw) == CASE pw = "" -> 0 [] pw = "p1" -> 1 [] pw = "p2" -> 2 [] OTHER -> 3

RECURSIVE WSum(_)
WSum(s) == IF Len(s) = 0 THEN 0 ELSE (Len(s) * s[Len(s)] + WSum(SubSeq(s, 1, Len(s) - 1))) % 251

LastByte(s) == IF Len(s) = 0 THEN 0 ELSE s[Len(s)]

Mask(key, iv) == (PwCode(key.pw) + WSum(key.salt) + WSum(iv)) % 256

\* The 256 bits of an AES key, and what crypto.subtle.exportKey or any
\* serialization can obtain of a key: nothing, as deriveKey passes
\* extractable = false.
KeyLength == 32
KeyBits(key) ==
    LET p == PwCode(key.pw)
        w == WSum(key.salt) + 1
    IN  [i \in 1..KeyLength |-> (p + i * w) % 256]
Extractable(key) == FALSE
exportKey(key) == IF Extractable(key) THEN KeyBits(key) ELSE <<>>

\* The authentication tag: TagBytes bytes that differ whenever key, nonce or
\* plaintext differ.
GcmTag(key, iv, pt) ==
    LET t == <<PwCode(key.pw), Len(key.salt) % 256, LastByte(key.salt), WSum(key.salt),
               Len(iv) % 256, LastByte(iv), WSum(iv), Len(pt) % 256>> \o pt
    IN  [i \in 1..TagBytes |-> IF i <= Len(t) THEN t[i] ELSE 0]

\* crypto.subtle.encrypt({name: "AES-GCM", iv}, key, pt): ciphertext || tag.
AesGcmEncrypt(key, iv, pt) ==
    [i \in 1..Len(pt) |-> (pt[i] + Mask(key, iv)) % 256] \o GcmTag(key, iv, pt)

\* A decrypt that returns the plaintext without verifying the tag.
AesGcmDecryptUnverified(key, iv, data) ==
    IF Len(data) < TagBytes THEN [ok |-> FALSE, pt |-> <<>>]
    ELSE [ok |-> TRUE,
          pt |-> [i \in 1..(Len(data) - TagBytes) |->
                     (data[i] + 256 - Mask(key, iv)) % 256]]

\* crypto.subtle.decrypt: the plaintext, or a rejection (OperationError) when
\* the tag does not verify.
AesGcmDecrypt(key, iv, data) ==
    IF Len(data) < TagBytes THEN [ok |-> FALSE, pt |-> <<>>]
    ELSE LET n  == Len(data) - TagBytes
             pt == [i \in 1..n |-> (data[i] + 256 - Mask(key, iv)) % 256]
         IN  IF GcmTag(key, iv, pt) = SubSeq(data, n + 1, Len(data))
             THEN [ok |-> TRUE, pt |-> pt]
             ELSE [ok |-> FALSE, pt |-> <<>>]

\* ----------------------------------------------------------- cryptoService
\* A deriveKey that draws a new salt even when it is given one.
deriveKeyFreshSalt(password, saltHex, rnd) ==
    [key |-> Pbkdf2(password, rnd), salt |-> ab2hex(rnd)]

\* enc.encode(password), and the characters of the password.
PwBytes(pw) == CASE pw = "p1" -> <<112, 49>> [] pw = "p2" -> <<112, 50>> [] OTHER -> <<>>
PwText(pw) == CASE pw = "p1" -> <<"p", "1">> [] pw = "p2" -> <<"p", "2">> [] OTHER -> <<>>

\* A deriveKey that, given no salt, uses the password bytes as the salt.
deriveKeyPwSalt(password, saltHex, rnd) ==
    LET salt == IF saltHex # <<>> THEN hex2ab(saltHex)
                ELSE [i \in 1..SaltBytes |->
                         IF i <= Len(PwBytes(password)) THEN PwBytes(password)[i] ELSE 0]
    IN  [key  |-> Pbkdf2(password, salt),
         salt |-> IF saltHex # <<>> THEN saltHex ELSE ab2hex(salt)]

\* deriveKey(password, saltHex?): rnd is the buffer getRandomValues returns
\* when no (or an empty) saltHex is given.
deriveKey(password, saltHex, rnd) ==
    LET salt == IF saltHex # <<>> THEN hex2ab(saltHex) ELSE rnd
    IN  [key  |-> Pbkdf2(password, salt),
         salt |-> IF saltHex # <<>> THEN saltHex ELSE ab2hex(salt)]

\* An encryptData that seals under an all-zero iv whatever was drawn.
encryptDataZeroIv(data, key, salt, iv) ==
    LET zero == [i \in 1..IvBytes |-> 0]
    IN  salt \o <<":">> \o ab2hex(zero) \o <<":">>
             \o ab2hex(AesGcmEncrypt(key, zero, str2ab(data)))

\* An encryptData that stores the record bytes as they are.
encryptDataPlain(data, key, salt, iv) ==
    salt \o <<":">> \o ab2hex(iv) \o <<":">> \o ab2hex(str2ab(data))

\* An encryptData that puts the bits of the key behind the ciphertext.
encryptDataWithKey(data, key, salt, iv) ==
    salt \o <<":">> \o ab2hex(iv) \o <<":">>
         \o ab2hex(AesGcmEncrypt(key, iv, str2ab(data)) \o KeyBits(key))

\* encryptData(data, key, salt): iv is the buffer getRandomValues returns.
encryptData(data, key, salt, iv) ==
    salt \o <<":">> \o ab2hex(iv) \o <<":">> \o ab2hex(AesGcmEncrypt(key, iv, str2ab(data)))

\* decryptData(encryptedString, key): the record, or the error thrown.
decryptData(encryptedString, key) ==
    LET parts   == split(encryptedString)
        saltHex == Elem(parts, 1)
        ivHex   == Elem(parts, 2)
        dataHex == Elem(parts, 3)
    IN  IF saltHex = <<>> \/ ivHex = <<>> \/ dataHex = <<>>
        THEN [error |-> "Invalid Data Format"]
        ELSE LET res == AesGcmDecrypt(key, hex2ab(ivHex), hex2ab(dataHex))
             IN  IF ~res.ok THEN [error |-> "OperationError"]
                 ELSE IF ~IsRecordText(res.pt) THEN [error |-> "SyntaxError"]
                 ELSE [error |-> "none", data |-> JSONparse(res.pt)]


\* ------------------------------------------------------------------- state
VARIABLES
    storage,        \* localStorage['instock_encrypted_data']; <<>> when absent
    vault,          \* history: how the stored blob was sealed
    auth,           \* App: AuthState
    data,           \* App: watchlist, portfolio, alerts, userSettings
    syncStatus,     \* App: syncStatus
    idleTimers,     \* App: pending setTimeout(() => setSyncStatus('IDLE'))
    timers,         \* App: pending debounce timers of the sync effect
    saves,          \* App: syncData calls awaiting encryptData
    mode,           \* LoginPage: mode
    status,         \* LoginPage: status
    loading,        \* LoginPage: loading
    login,          \* LoginPage: the submitted form's handler in progress
    rotations,      \* SettingsPage: handleChangePassword calls in progress
    rng,            \* number of getRandomValues calls made so far
    sealed,         \* history: the (key, iv) pair of each encryptData call
    unlockFailures, \* history: (error caught, status shown) of failed unlocks
    watchlist,      \* App: watchlist, the symbols in their order
    selectedIndex,  \* App: selectedIndex (0-based)
    modalType,      \* App: modalType ("NONE" or "ADD_STOCK")
    validationError \* App: validationError; "" when undefined

vars == <<storage, vault, auth, data, syncStatus, idleTimers, timers, saves,
          mode, status, loading, login, rotations, rng, sealed, unlockFailures,
          watchlist, selectedIndex, modalType, validationError>>

sessionVars == <<auth, data, syncStatus, idleTimers, timers, saves, rotations>>
loginVars == <<mode, status, loading, login>>
historyVars == <<sealed, unlockFailures>>
dashboardVars == <<watchlist, selectedIndex, modalType, validationError>>

\* localStorage.getItem of a missing key (null, falsy like the empty string).
NoItem == <<>>

\* INITIAL_WATCHLIST of constants.ts.
INITIAL_WATCHLIST ==
    << <<"R", "E", "L", "I", "A", "N", "C", "E", ".", "N", "S">>,
       <<"T", "C", "S", ".", "N", "S">>,
       <<"H", "D", "F", "C", "B", "A", "N", "K", ".", "N", "S">>,
       <<"I", "N", "F", "Y", ".", "N", "S">>,
       <<"T", "A", "T", "A", "M", "O", "T", "O", "R", "S", ".", "N", "S">>,
       <<"S", "B", "I", "N", ".", "N", "S">>,
       <<"A", "D", "A", "N", "I", "E", "N", "T", ".", "N", "S">> >>

\* The record follows the watchlist by its content: 0 for INITIAL_WATCHLIST,
\* 1 for every other list.
WlClass(list) == IF list = INITIAL_WATCHLIST THEN 0 ELSE 1

\* A watchlist of each content: INITIAL_WATCHLIST, and a list that differs
\* from it.
WatchlistOf(wl) == IF wl = 0 THEN INITIAL_WATCHLIST ELSE Tail(INITIAL_WATCHLIST)

\* INITIAL_WATCHLIST, portfolio: [], alerts: [] (no user settings).
InitialData == [wl |-> 0, apiKey |-> "", useCustomKey |-> FALSE]

\* An initial AuthState that is already authenticated.
AuthenticatedAuth ==
    [isAuthenticated |-> TRUE, isLocal |-> TRUE, cryptoKey |-> NoKey, salt |-> <<>>]

\* useState<AuthState>({token: '', username: '', repo: '', isAuthenticated: false}).
InitialAuth ==
    [isAuthenticated |-> FALSE, isLocal |-> FALSE, cryptoKey |-> NoKey, salt |-> <<>>]

\* The AuthState both local handlers pass to onLogin.
LocalAuth(key, salt) ==
    [isAuthenticated |-> TRUE, isLocal |-> TRUE, cryptoKey |-> key, salt |-> salt]

LoginIdle ==
    [pc |-> "idle", passphrase |-> "", customApiKey |-> "", encryptedString |-> <<>>,
     salt |-> <<>>, key |-> NoKey, iv |-> <<>>, data |-> InitialData, error |-> "none"]

NoVault == [made |-> FALSE, pw |-> "", record |-> InitialData]
MadeVault(key, record) == [made |-> TRUE, pw |-> key.pw, record |-> record]

\* ---------------------------------------------------------- initial storage
\* A vault left by an earlier session: passphrase "p1", an API key saved.
PriorRecord == [wl |-> 0, apiKey |-> "k1", useCustomKey |-> FALSE]
PriorKey == deriveKey("p1", <<>>, RandomBytes(SaltBytes, 200))
PriorIv == RandomBytes(IvBytes, 201)
PriorBlob == encryptData(PriorRecord, PriorKey.key, PriorKey.salt, PriorIv)

\* Unreadable blobs: two fields; four fields; a non-hex character in the
\* salt, the nonce or the ciphertext field; an empty salt field.
TwoFields == <<"a", "b", ":", "c", "d">>
FourFields == PriorBlob \o <<":", "0", "0">>
NonHexSalt == <<"g">> \o SubSeq(PriorBlob, 2, Len(PriorBlob))
NonHexIv == [PriorBlob EXCEPT ![2 * SaltBytes + 2 * IvBytes + 1] = "g"]
NonHexData == PriorBlob \o <<"g">>
EmptySalt == SubSeq(PriorBlob, 2 * SaltBytes + 1, Len(PriorBlob))

Malformed == {TwoFields, FourFields, NonHexSalt, NonHexIv, NonHexData, EmptySalt}

\* What a session may find in localStorage when it starts: nothing, the
\* vault of an earlier session, or a blob that was damaged since.
SoundInputs ==
    {[blob |-> NoItem, vault |-> NoVault],
     [blob |-> PriorBlob, vault |-> MadeVault(PriorKey.key, PriorRecord)]}
DamagedInputs == {[blob |-> b, vault |-> NoVault] : b \in Malformed}

InitFrom(inputs) ==
    /\ \E s \in inputs : storage = s.blob /\ vault = s.vault
    /\ auth = InitialAuth
    /\ data = InitialData
    /\ syncStatus = "IDLE"
    /\ idleTimers = 0
    /\ timers = <<>>
    /\ saves = {}
    /\ mode = "CLOUD"
    /\ status = "READY_TO_CONNECT"
    /\ loading = FALSE
    /\ login = LoginIdle
    /\ rotations = EmptyBag
    /\ rng = 0
    /\ sealed = <<>>
    /\ unlockFailures = {}
    /\ watchlist = INITIAL_WATCHLIST
    /\ selectedIndex = 0
    /\ modalType = "NONE"
    /\ validationError = ""

Init == InitFrom(SoundInputs \cup {[blob |-> TwoFields, vault |-> NoVault]})


\* An effect without a cleanup: the timer it finds armed stays armed.
SyncEffectNoCleanup(pending, a, d) ==
    IF a.isAuthenticated THEN Append(pending, [auth |-> a, data |-> d]) ELSE pending

\* An effect that leaves a timer it finds armed as it is.
SyncEffectKeep(pending, a, d) ==
    IF pending # <<>> THEN pending
    ELSE IF a.isAuthenticated THEN <<[auth |-> a, data |-> d]>> ELSE <<>>

\* ------------------------------------------------------------- App helpers
\* The sync effect of App.tsx: its cleanup clears the timer the previous run
\* armed; it arms a new one holding this render's auth and data, unless the
\* session is not authenticated.
SyncEffect(pending, a, d) ==
    IF a.isAuthenticated THEN <<[auth |-> a, data |-> d]>> ELSE <<>>

\* The handlers in progress that have yet to call encryptData.
Reserved ==
    (IF login.pc = "cderive" THEN 1 ELSE 0)
    + BagCardinality(rotations)
    - Cardinality({r \in BagToSet(rotations) : r.pc = "encrypt"})

\* A handler that calls encryptData is started only while MaxSeals leaves
\* room for its call.
MaySeal == Len(sealed) + Reserved + 1 <= MaxSeals

\* No handler draws more than two random buffers per encryptData call; the
\* salt deriveKey draws for a blob with an empty salt field is held to the
\* same total.
MaxDraws == 2 * MaxSeals

\* One more use of a (key, iv) pair by encryptData.
Seal(key, iv) == sealed' = Append(sealed, [key |-> key, iv |-> iv])

\* --------------------------------------------------------------- LoginPage
\* String.prototype.trim of the API key field.
trim(k) == IF k = " " THEN "" ELSE k

injectApiKey(d, customApiKey) ==
    IF trim(customApiKey) = "" THEN d
    ELSE [d EXCEPT !.apiKey = trim(customApiKey), !.useCustomKey = TRUE]

\* A switchToLocal that offers the create form whatever storage holds.
switchToLocalCreate ==
    /\ ~auth.isAuthenticated /\ mode = "CLOUD" /\ ~loading
    /\ mode' = "LOCAL_CREATE"
    /\ status' = "INITIALIZING_LOCAL_DRIVE..."
    /\ UNCHANGED <<storage, vault, sessionVars, loading, login, rng, historyVars,
                   dashboardVars>>

\* switchToLocal: the USE LOCAL STORAGE button of the login page.
switchToLocal ==
    /\ ~auth.isAuthenticated /\ mode = "CLOUD" /\ ~loading
    /\ mode' = IF storage # NoItem THEN "LOCAL_UNLOCK" ELSE "LOCAL_CREATE"
    /\ status' = "INITIALIZING_LOCAL_DRIVE..."
    /\ UNCHANGED <<storage, vault, sessionVars, loading, login, rng, historyVars,
                   dashboardVars>>

\* The BACK TO CLOUD LOGIN button.
backToCloud ==
    /\ ~auth.isAuthenticated /\ mode # "CLOUD" /\ ~loading
    /\ mode' = "CLOUD"
    /\ UNCHANGED <<storage, vault, sessionVars, status, loading, login, rng,
                   historyVars, dashboardVars>>

\* The catch block of handleLocalUnlock.
UnlockFailed(error) ==
    /\ status' = "ERROR: DECRYPTION_FAILED (WRONG_KEY)"
    /\ loading' = FALSE
    /\ login' = [LoginIdle EXCEPT !.error = error,
                                  !.encryptedString = login.encryptedString]
    /\ unlockFailures' = unlockFailures \cup {[error |-> error, status |-> status']}

\* handleLocalUnlock up to its first await (deriveKey).
handleLocalUnlock(passphrase, customApiKey) ==
    /\ ~auth.isAuthenticated /\ mode = "LOCAL_UNLOCK" /\ ~loading
    /\ IF passphrase = ""
       THEN UNCHANGED <<status, loading, login, unlockFailures>>
       ELSE IF storage = NoItem
       THEN /\ status' = "ERROR: DECRYPTION_FAILED (WRONG_KEY)"
            /\ loading' = FALSE
            /\ login' = [LoginIdle EXCEPT !.error = "No data found"]
            /\ unlockFailures' =
                   unlockFailures \cup {[error |-> "No data found", status |-> status']}
       ELSE /\ split(storage)[1] = <<>> => rng < MaxDraws
            /\ status' = "DECRYPTING_VAULT..."
            /\ loading' = TRUE
            /\ login' = [LoginIdle EXCEPT !.pc = "derive",
                                          !.passphrase = passphrase,
                                          !.customApiKey = customApiKey,
                                          !.encryptedString = storage,
                                          !.salt = split(storage)[1]]
            /\ UNCHANGED unlockFailures
    /\ UNCHANGED <<storage, vault, sessionVars, mode, rng, sealed, dashboardVars>>

\* deriveKey returns; decryptData runs up to crypto.subtle.decrypt.
UnlockDerived ==
    /\ login.pc = "derive"
    /\ LET dk == deriveKey(login.passphrase, login.salt, RandomBytes(SaltBytes, rng + 1))
           r  == decryptData(login.encryptedString, dk.key)
       IN  /\ rng' = IF login.salt = <<>> THEN rng + 1 ELSE rng
           /\ IF r.error = "Invalid Data Format"
              THEN UnlockFailed(r.error)
              ELSE /\ login' = [login EXCEPT !.pc = "decrypt", !.key = dk.key]
                   /\ UNCHANGED <<status, loading, unlockFailures>>
    /\ UNCHANGED <<storage, vault, sessionVars, mode, sealed, dashboardVars>>

\* crypto.subtle.decrypt settles; on success the record is parsed, the API
\* key injected and onLogin scheduled.
UnlockDecrypted ==
    /\ login.pc = "decrypt"
    /\ LET r == decryptData(login.encryptedString, login.key)
       IN  IF r.error # "none"
           THEN UnlockFailed(r.error)
           ELSE /\ login' = [login EXCEPT !.pc = "granted",
                                          !.data = injectApiKey(r.data, login.customApiKey)]
                /\ status' = "ACCESS_GRANTED"
                /\ UNCHANGED <<loading, unlockFailures>>
    /\ UNCHANGED <<storage, vault, sessionVars, mode, rng, sealed, dashboardVars>>

\* handleLocalCreate up to its first await (deriveKey).
handleLocalCreate(passphrase, customApiKey) ==
    /\ ~auth.isAuthenticated /\ mode = "LOCAL_CREATE" /\ ~loading
    /\ IF passphrase = ""
       THEN UNCHANGED <<status, loading, login>>
       ELSE /\ MaySeal
            /\ status' = "GENERATING_KEYS..."
            /\ loading' = TRUE
            /\ login' = [LoginIdle EXCEPT !.pc = "cderive",
                                          !.passphrase = passphrase,
                                          !.customApiKey = customApiKey]
    /\ UNCHANGED <<storage, vault, sessionVars, mode, rng, historyVars,
                   dashboardVars>>

\* deriveKey returns a key under a new salt; encryptData draws its iv and
\* awaits crypto.subtle.encrypt.
CreateDerived ==
    /\ login.pc = "cderive"
    /\ LET dk == deriveKey(login.passphrase, <<>>, RandomBytes(SaltBytes, rng + 1))
           iv == RandomBytes(IvBytes, rng + 2)
       IN  /\ login' = [login EXCEPT !.pc = "cencrypt", !.key = dk.key, !.salt = dk.salt,
                                     !.iv = iv,
                                     !.data = injectApiKey(InitialData, login.customApiKey)]
           /\ Seal(dk.key, iv)
    /\ rng' = rng + 2
    /\ UNCHANGED <<storage, vault, sessionVars, mode, status, loading, unlockFailures,
                   dashboardVars>>

\* encryptData returns; the blob is stored and onLogin scheduled.
CreateEncrypted ==
    /\ login.pc = "cencrypt"
    /\ storage' = encryptData(login.data, login.key, login.salt, login.iv)
    /\ vault' = MadeVault(login.key, login.data)
    /\ status' = "VAULT_CREATED"
    /\ login' = [login EXCEPT !.pc = "created"]
    /\ UNCHANGED <<sessionVars, mode, loading, rng, historyVars, dashboardVars>>

\* handleLogin of App.tsx, the onLogin the 500 ms timer of either handler
\* calls; the login page is unmounted and the sync effect runs.
handleLogin ==
    /\ login.pc \in {"granted", "created"}
    /\ auth' = LocalAuth(login.key, login.salt)
    /\ data' = login.data
    /\ watchlist' = WatchlistOf(login.data.wl)
    /\ timers' = SyncEffect(timers, auth', data')
    /\ mode' = "CLOUD" /\ status' = "READY_TO_CONNECT" /\ loading' = FALSE
    /\ login' = LoginIdle
    /\ UNCHANGED <<storage, vault, syncStatus, idleTimers, saves, rotations, rng,
                   historyVars, selectedIndex, modalType, validationError>>


\* --------------------------------------------------------------------- App
\* A change of the record to other contents (handleUpdateUserData and the
\* setters of watchlist, portfolio, alerts, userSettings), which re-runs the
\* sync effect; handleAddStock and handleRemoveStock are followed symbol by
\* symbol in the dashboard section.
editWatchlist(wl) ==
    /\ auth.isAuthenticated
    /\ wl # data.wl
    /\ data' = [data EXCEPT !.wl = wl]
    /\ watchlist' = WatchlistOf(wl)
    /\ timers' = SyncEffect(timers, auth, data')
    /\ UNCHANGED <<storage, vault, auth, syncStatus, idleTimers, saves, loginVars,
                   rotations, rng, historyVars, selectedIndex, modalType,
                   validationError>>

\* A guard that takes every local session for an encrypted one.
LocalOnly(a) == a.isLocal

\* auth.isLocal && auth.cryptoKey && auth.salt, the guard of syncData's local
\* encrypted branch.
LocalEncrypted(a) == a.isLocal /\ a.cryptoKey # NoKey /\ a.salt # <<>>

\* The debounce timer fires: syncData runs up to its await.  In local
\* encrypted mode encryptData draws its iv and awaits crypto.subtle.encrypt;
\* in a cloud session saveUserData is awaited; in a local session without a
\* key or salt neither branch is taken.
syncData ==
    /\ Len(timers) > 0
    /\ LET c == Head(timers)
       IN  /\ timers' = Tail(timers)
           /\ syncStatus' = "SYNCING"
           /\ IF LocalEncrypted(c.auth)
              THEN /\ MaySeal
                   /\ LET iv == RandomBytes(IvBytes, rng + 1)
                      IN  /\ saves' = saves \cup {[data |-> c.data, key |-> c.auth.cryptoKey,
                                                   salt |-> c.auth.salt, iv |-> iv,
                                                   cloud |-> FALSE]}
                          /\ Seal(c.auth.cryptoKey, iv)
                   /\ rng' = rng + 1
              ELSE /\ saves' = IF c.auth.isLocal THEN saves
                               ELSE saves \cup {[data |-> c.data, key |-> NoKey,
                                                 salt |-> <<>>, iv |-> <<>>,
                                                 cloud |-> TRUE]}
                   /\ UNCHANGED <<rng, sealed>>
    /\ UNCHANGED <<storage, vault, auth, data, idleTimers, loginVars, rotations,
                   unlockFailures, dashboardVars>>

\* encryptData returns to syncData: the blob is stored.
syncDataSaved(s) ==
    /\ s \in saves /\ ~s.cloud
    /\ saves' = saves \ {s}
    /\ storage' = encryptData(s.data, s.key, s.salt, s.iv)
    /\ vault' = MadeVault(s.key, s.data)
    /\ syncStatus' = "SAVED"
    /\ idleTimers' = idleTimers + 1
    /\ UNCHANGED <<auth, data, timers, loginVars, rotations, rng, historyVars,
                   dashboardVars>>

\* An autosave to the cloud draws nothing and so is not held back by
\* MaxSeals; the IDLE resets pending at one time are held to the same number.
MaxIdleTimers == MaxSeals

\* saveUserData returns to syncData: on success the status is SAVED and,
\* when the result carries a new sha, auth.sha changes and the sync effect
\* runs again; otherwise the status is ERROR.
syncDataCloud(s, success, newSha) ==
    /\ s \in saves /\ s.cloud
    /\ saves' = saves \ {s}
    /\ IF success
       THEN /\ idleTimers < MaxIdleTimers
            /\ syncStatus' = "SAVED"
            /\ idleTimers' = idleTimers + 1
            /\ timers' = IF newSha THEN SyncEffect(timers, auth, data) ELSE timers
       ELSE /\ syncStatus' = "ERROR"
            /\ UNCHANGED <<idleTimers, timers>>
    /\ UNCHANGED <<storage, vault, auth, data, loginVars, rotations, rng, historyVars,
                   dashboardVars>>

\* setTimeout(() => setSyncStatus('IDLE'), 2000) fires.
syncIdle ==
    /\ idleTimers > 0
    /\ idleTimers' = idleTimers - 1
    /\ syncStatus' = "IDLE"
    /\ UNCHANGED <<storage, vault, auth, data, timers, saves, loginVars, rotations,
                   rng, historyVars, dashboardVars>>

\* A handleChangePassword without its two checks.
handleChangePasswordUnchecked(newPass, confirmPass) ==
    /\ auth.isAuthenticated /\ auth.isLocal
    /\ MaySeal
    /\ rotations' = rotations (+) SetToBag({
           [pc |-> "derive", newPass |-> newPass, auth |-> auth, userData |-> data,
            key |-> NoKey, salt |-> <<>>, iv |-> <<>>]})
    /\ UNCHANGED <<storage, vault, auth, data, syncStatus, idleTimers, timers, saves,
                   loginVars, rng, historyVars, dashboardVars>>

\* ------------------------------------------------------------ SettingsPage
\* handleChangePassword up to its first await (deriveKey); the closure holds
\* the auth and userData props of the render it was created in.  (The toast
\* of showStatus is not part of the model.)
handleChangePassword(newPass, confirmPass) ==
    /\ auth.isAuthenticated /\ auth.isLocal
    /\ IF newPass # confirmPass \/ auth.cryptoKey = NoKey
       THEN UNCHANGED rotations
       ELSE /\ MaySeal
            /\ rotations' = rotations (+) SetToBag({
                   [pc |-> "derive", newPass |-> newPass, auth |-> auth, userData |-> data,
                    key |-> NoKey, salt |-> <<>>, iv |-> <<>>]})
    /\ UNCHANGED <<storage, vault, auth, data, syncStatus, idleTimers, timers, saves,
                   loginVars, rng, historyVars, dashboardVars>>

\* deriveKey returns a key under a new salt; encryptData draws its iv and
\* awaits crypto.subtle.encrypt.
RotateDerived(r) ==
    /\ BagIn(r, rotations)
    /\ r.pc = "derive"
    /\ LET dk == deriveKey(r.newPass, <<>>, RandomBytes(SaltBytes, rng + 1))
           iv == RandomBytes(IvBytes, rng + 2)
       IN  /\ rotations' = (rotations (-) SetToBag({r})) (+) SetToBag({
                   [r EXCEPT !.pc = "encrypt", !.key = dk.key, !.salt = dk.salt,
                             !.iv = iv]})
           /\ Seal(dk.key, iv)
    /\ rng' = rng + 2
    /\ UNCHANGED <<storage, vault, auth, data, syncStatus, idleTimers, timers, saves,
                   loginVars, unlockFailures, dashboardVars>>

\* encryptData returns: the blob is stored, the session takes the new key
\* and salt (onUpdateAuth), and the sync effect runs again.
RotateEncrypted(r) ==
    /\ BagIn(r, rotations)
    /\ r.pc = "encrypt"
    /\ storage' = encryptData(r.userData, r.key, r.salt, r.iv)
    /\ vault' = MadeVault(r.key, r.userData)
    /\ auth' = [r.auth EXCEPT !.cryptoKey = r.key, !.salt = r.salt]
    /\ rotations' = rotations (-) SetToBag({r})
    /\ timers' = SyncEffect(timers, auth', data)
    /\ UNCHANGED <<data, syncStatus, idleTimers, saves, loginVars, rng, historyVars,
                   dashboardVars>>

\* ------------------------------------------------------------- environment
\* The page is closed or reloaded: the state of every component is gone,
\* what is in localStorage stays.
Reload ==
    /\ auth # InitialAuth \/ mode # "CLOUD" \/ login # LoginIdle
    /\ auth' = InitialAuth
    /\ data' = InitialData
    /\ syncStatus' = "IDLE"
    /\ idleTimers' = 0
    /\ timers' = <<>>
    /\ saves' = {}
    /\ mode' = "CLOUD"
    /\ status' = "READY_TO_CONNECT"
    /\ loading' = FALSE
    /\ login' = LoginIdle
    /\ rotations' = EmptyBag
    /\ watchlist' = INITIAL_WATCHLIST
    /\ selectedIndex' = 0
    /\ modalType' = "NONE"
    /\ validationError' = ""
    /\ UNCHANGED <<storage, vault, rng, historyVars>>

\* ----------------------------------------------------------- specification
Next ==
    \/ switchToLocal
    \/ backToCloud
    \/ \E p \in Passphrases, k \in FormApiKeys : handleLocalUnlock(p, k)
    \/ UnlockDerived
    \/ UnlockDecrypted
    \/ \E p \in Passphrases, k \in FormApiKeys : handleLocalCreate(p, k)
    \/ CreateDerived
    \/ CreateEncrypted
    \/ handleLogin
    \/ \E wl \in Watchlists : editWatchlist(wl)
    \/ syncData
    \/ \E s \in saves : syncDataSaved(s)
    \/ syncIdle
    \/ \E p, q \in Passphrases : handleChangePassword(p, q)
    \/ \E r \in BagToSet(rotations) : RotateDerived(r)
    \/ \E r \in BagToSet(rotations) : RotateEncrypted(r)
    \/ Reload

Spec == Init /\ [][Next]_vars

\* The login page alone, over every kind of stored blob; the stored vault
\* may be damaged from outside while the page waits for input.
InitUnlock == InitFrom(SoundInputs \cup DamagedInputs)

StorageDamaged ==
    /\ ~auth.isAuthenticated /\ login.pc = "idle"
    /\ storage = PriorBlob
    /\ \E b \in Malformed : storage' = b
    /\ vault' = NoVault
    /\ UNCHANGED <<sessionVars, loginVars, rng, historyVars, dashboardVars>>

NextUnlock ==
    \/ switchToLocal
    \/ backToCloud
    \/ \E p \in Passphrases, k \in FormApiKeys : handleLocalUnlock(p, k)
    \/ UnlockDerived
    \/ UnlockDecrypted
    \/ \E p \in Passphrases, k \in FormApiKeys : handleLocalCreate(p, k)
    \/ CreateDerived
    \/ CreateEncrypted
    \/ handleLogin
    \/ Reload
    \/ StorageDamaged

SpecUnlock == InitUnlock /\ [][NextUnlock]_vars

\* ============================================================== properties
\* The status the catch block of handleLocalUnlock shows.
DecryptionFailed == "ERROR: DECRYPTION_FAILED (WRONG_KEY)"

\* An unlock is in progress, or has just been granted, on the blob that is
\* in storage, with the passphrase that blob was sealed under.
RightPassphrase ==
    /\ vault.made /\ login.encryptedString = storage
    /\ login.passphrase = vault.pw

\* ... with another passphrase.
WrongPassphrase ==
    /\ vault.made /\ login.encryptedString = storage
    /\ login.passphrase # vault.pw

\* C1 as stated: an unlock with the passphrase the stored vault was sealed
\* under hands the application exactly the record that was sealed.
C1_RoundTripExact ==
    login.pc = "granted" /\ RightPassphrase => login.data = vault.record

\* C1, amended: an unlock with the passphrase the stored vault was sealed
\* under succeeds, and hands the application injectApiKey of the sealed
\* record: the record itself when the form's API key field is blank, else
\* the record with customApiKey set to the field and useCustomKey true.
C1_RoundTrip ==
    /\ [](login.pc = "granted" /\ RightPassphrase
            => login.data = injectApiKey(vault.record, login.customApiKey))
    /\ [][UnlockDecrypted /\ RightPassphrase => login'.pc = "granted"]_vars
    /\ [][handleLogin /\ login.pc = "granted" /\ RightPassphrase
            => data' = injectApiKey(vault.record, login.customApiKey)]_vars

\* A vault created in this behaviour has been unlocked with its passphrase
\* and an API key typed into the form.
C1_Unlocked ==
    /\ login.pc = "granted" /\ RightPassphrase
    /\ sealed # <<>>
    /\ login.customApiKey = "k1"

\* C2: an unlock of a stored vault with a passphrase other than the one it
\* was sealed under ends in the catch block: decryption is rejected
\* (OperationError), the failure status is shown, no record is granted,
\* onLogin is not scheduled and the session state is untouched.
C2_WrongPassphrase ==
    /\ [](login.pc = "granted" /\ vault.made /\ login.encryptedString = storage
            => login.passphrase = vault.pw)
    /\ [][UnlockDecrypted /\ WrongPassphrase
            => /\ login'.error = "OperationError"
               /\ status' = DecryptionFailed
               /\ login'.pc = "idle" /\ login'.key = NoKey
               /\ ~auth'.isAuthenticated /\ auth' = InitialAuth]_vars

\* An unlock of a vault created in this behaviour has been rejected.
C2_Rejected ==
    /\ vault.made /\ sealed # <<>>
    /\ login.error = "OperationError" /\ status = DecryptionFailed
    /\ ~auth.isAuthenticated

\* C3: key derivation is started, and the unlock gets past decoding, only
\* for a blob of exactly three fields of hex characters; any other blob
\* ends the unlock with the format error.
C3_FormatRejection ==
    LET parts == split(login.encryptedString)
        AllHex(f) == \A i \in 1..Len(f) : IsHexChar(f[i])
        WellFormed == Len(parts) = 3 /\ \A k \in 1..3 : AllHex(parts[k])
    IN  /\ login.pc \in {"derive", "decrypt", "granted"} => WellFormed
        /\ login.error \in {"OperationError", "SyntaxError"} => WellFormed

\* C4: a failed unlock that caught the format error never shows the status
\* that a failed unlock shows when decryption was rejected.
C4_Distinguishable ==
    \A f, g \in unlockFailures :
        f.error = "Invalid Data Format" /\ g.error = "OperationError"
            => f.status # g.status

\* C5: no two encryptData calls of a behaviour (create, autosave, rotate)
\* use the same (key, iv) pair, and every iv is a 12-byte buffer.
C5_NoNonceReuse ==
    /\ \A i, j \in 1..Len(sealed) : i # j => sealed[i] # sealed[j]
    /\ \A i \in 1..Len(sealed) : Len(sealed[i].iv) = IvBytes

\* Two encryptData calls have used the same key (an autosave sealing under
\* the session key a second time).
C5_KeyUsedTwice ==
    \E i, j \in 1..Len(sealed) : i < j /\ sealed[i].key = sealed[j].key

\* What handleLocalUnlock makes of a passphrase and a stored blob: whether
\* it ends in ACCESS_GRANTED.
unlocks(passphrase, blob) ==
    /\ passphrase # ""
    /\ blob # NoItem
    /\ decryptData(blob, deriveKey(passphrase, split(blob)[1], <<>>).key).error = "none"

\* C6: when a rotation writes its blob, the blob it replaces unlocks with
\* the passphrase it was sealed under, the new blob unlocks with the new
\* passphrase, and the new blob does not unlock with the old passphrase.
C6_RotationSafety ==
    [][\A r \in BagToSet(rotations) :
          RotateEncrypted(r) /\ vault.made
              => /\ unlocks(vault.pw, storage)
                 /\ unlocks(r.newPass, storage')
                 /\ ~unlocks(vault.pw, storage')]_vars

\* C7: while a rotation is in progress the stored blob opens under the
\* passphrase of the key the session held when the rotation was submitted,
\* or under the rotation's new passphrase.
C7_PartialRotationSafe ==
    \A r \in BagToSet(rotations) :
        \E p \in {r.auth.cryptoKey.pw, r.newPass} :
            decryptData(storage, deriveKey(p, split(storage)[1], <<>>).key).error = "none"

\* C8: at most one autosave or rotation is between its start and its write.
C8_Serialized == Cardinality(saves) + BagCardinality(rotations) <= 1

\* C9: once an unlocked local session has no debounce timer pending and no
\* autosave or rotation in progress (nothing is left that would write
\* again), the stored blob opens under the session key to the record in
\* memory.
C9_AutosaveSettles ==
    /\ auth.isAuthenticated /\ auth.isLocal /\ auth.cryptoKey # NoKey
    /\ timers = <<>> /\ saves = {} /\ rotations = EmptyBag
    => decryptData(storage, auth.cryptoKey) = [error |-> "none", data |-> data]

\* C10: the session starts Locked, without a key; it becomes Unlocked only
\* by handleLogin taking the key and salt of a granted unlock (the blob
\* decrypted under that key) or of a completed create (the blob stored);
\* a Locked session holds no key; and no unlock or create is started or in
\* progress while the session is Unlocked.
C10_Lifecycle ==
    /\ ~auth.isAuthenticated /\ auth.cryptoKey = NoKey
    /\ [][~auth.isAuthenticated /\ auth'.isAuthenticated
            => /\ handleLogin
               /\ login.pc \in {"granted", "created"}
               /\ login.key # NoKey
               /\ auth'.cryptoKey = login.key /\ auth'.salt = login.salt]_vars
    /\ [](login.pc = "granted" =>
            decryptData(login.encryptedString, login.key).error = "none")
    /\ [](login.pc = "created" =>
            storage = encryptData(login.data, login.key, login.salt, login.iv))
    /\ [](~auth.isAuthenticated => auth.cryptoKey = NoKey)
    /\ [](auth.isAuthenticated => login.pc = "idle")
    /\ [][login.pc = "idle" /\ login'.pc # "idle" => ~auth.isAuthenticated]_vars

\* The session is Unlocked and holds a key and a salt.
C10_Unlocked ==
    auth.isAuthenticated /\ auth.cryptoKey # NoKey /\ auth.salt # <<>>

\* Every step a handler, timer or promise of the program takes (the page
\* being closed is not one of them).
Handlers ==
    \/ switchToLocal
    \/ backToCloud
    \/ \E p \in Passphrases, k \in FormApiKeys : handleLocalUnlock(p, k)
    \/ UnlockDerived
    \/ UnlockDecrypted
    \/ \E p \in Passphrases, k \in FormApiKeys : handleLocalCreate(p, k)
    \/ CreateDerived
    \/ CreateEncrypted
    \/ handleLogin
    \/ \E wl \in Watchlists : editWatchlist(wl)
    \/ syncData
    \/ \E s \in saves : syncDataSaved(s)
    \/ syncIdle
    \/ \E p, q \in Passphrases : handleChangePassword(p, q)
    \/ \E r \in BagToSet(rotations) : RotateDerived(r)
    \/ \E r \in BagToSet(rotations) : RotateEncrypted(r)

\* C11: in every Unlocked state some operation of the program can be
\* invoked that returns the session to Locked and leaves neither the key
\* nor the salt in the session state.
C11_LockAvailable ==
    auth.isAuthenticated
        => ENABLED (/\ Handlers
                    /\ ~auth'.isAuthenticated
                    /\ auth'.cryptoKey = NoKey /\ auth'.salt = <<>>)

\* ------------------------------------------------- cloud and local sessions
\* handleCloudSubmit succeeds (the GitHub calls return a user and the stored
\* record, or none) and onLogin is called with a cloud AuthState: no key, no
\* salt, isLocal false.
handleCloudSubmit(fetched, customApiKey) ==
    /\ ~auth.isAuthenticated /\ mode = "CLOUD" /\ ~loading /\ login.pc = "idle"
    /\ auth' = [isAuthenticated |-> TRUE, isLocal |-> FALSE, cryptoKey |-> NoKey,
                salt |-> <<>>]
    /\ data' = injectApiKey(fetched, customApiKey)
    /\ watchlist' = WatchlistOf(fetched.wl)
    /\ timers' = SyncEffect(timers, auth', data')
    /\ UNCHANGED <<storage, vault, syncStatus, idleTimers, saves, loginVars,
                   rotations, rng, historyVars, selectedIndex, modalType,
                   validationError>>

\* The DISCONNECT button of the CLOUD tab (shown while auth.isLocal is
\* false): onUpdateAuth({...auth, isLocal: true, token: '', ...}).
disconnect ==
    /\ auth.isAuthenticated /\ ~auth.isLocal
    /\ auth' = [auth EXCEPT !.isLocal = TRUE]
    /\ timers' = SyncEffect(timers, auth', data)
    /\ UNCHANGED <<storage, vault, data, syncStatus, idleTimers, saves, loginVars,
                   rotations, rng, historyVars, dashboardVars>>

\* handleGitHubConnect succeeds (form shown while auth.isLocal is true):
\* onUpdateAuth({...auth, token, username, repo, sha, isLocal: false}).
handleGitHubConnect ==
    /\ auth.isAuthenticated /\ auth.isLocal
    /\ auth' = [auth EXCEPT !.isLocal = FALSE]
    /\ timers' = SyncEffect(timers, auth', data)
    /\ UNCHANGED <<storage, vault, data, syncStatus, idleTimers, saves, loginVars,
                   rotations, rng, historyVars, dashboardVars>>

\* The sessions of every mode: cloud, local encrypted (an unlocked vault)
\* and local without a key, with the autosave running in each.
NextModes ==
    \/ \E d \in {InitialData, PriorRecord}, k \in FormApiKeys : handleCloudSubmit(d, k)
    \/ switchToLocal
    \/ backToCloud
    \/ \E p \in Passphrases, k \in FormApiKeys : handleLocalUnlock(p, k)
    \/ UnlockDerived
    \/ UnlockDecrypted
    \/ handleLogin
    \/ disconnect
    \/ handleGitHubConnect
    \/ \E wl \in Watchlists : editWatchlist(wl)
    \/ syncData
    \/ \E s \in saves : syncDataSaved(s)
    \/ \E s \in saves, ok, sha \in BOOLEAN : syncDataCloud(s, ok, sha)
    \/ syncIdle

SpecModes == InitFrom(SoundInputs) /\ [][NextModes]_vars

\* C12 as stated: the autosave seals, and writes its blob, only while the
\* session is authenticated, local and holds a key and a salt.
C12_PersistOnlyLocal ==
    [][(syncData /\ sealed' # sealed) \/ (\E s \in saves : syncDataSaved(s))
          => auth.isAuthenticated /\ auth.isLocal
             /\ auth.cryptoKey # NoKey /\ auth.salt # <<>>]_vars

\* C12, amended: the autosave seals only while the session is
\* authenticated, local and holds a key and a salt, and seals under that key
\* and salt; every blob it writes was sealed so, and is written while the
\* session is still authenticated and holds a key and a salt (it may have
\* been connected to the cloud since the seal).
C12_PersistOnlyUnlocked ==
    /\ [][syncData /\ sealed' # sealed
            => /\ auth.isAuthenticated /\ auth.isLocal
               /\ auth.cryptoKey # NoKey /\ auth.salt # <<>>
               /\ sealed'[Len(sealed')].key = auth.cryptoKey]_vars
    /\ [](\A s \in saves : ~s.cloud =>
            /\ s.key # NoKey /\ s.salt # <<>>
            /\ \E i \in 1..Len(sealed) : sealed[i] = [key |-> s.key, iv |-> s.iv])
    /\ [][\A s \in saves : syncDataSaved(s)
            => auth.isAuthenticated /\ auth.cryptoKey # NoKey /\ auth.salt # <<>>]_vars

\* An autosave has sealed and awaits the encryption in a local session
\* that holds a key.
C12_Sealing ==
    /\ \E s \in saves : ~s.cloud
    /\ auth.isLocal /\ auth.cryptoKey # NoKey
    /\ syncStatus = "SYNCING"

\* C13: every blob an autosave writes carries the salt the session holds at
\* that moment, and an autosave leaves the session's salt alone; the
\* session's salt changes only when handleLogin takes the salt of a create
\* or of the unlocked blob, or when a rotation completes.
C13_SaltStable ==
    /\ [][\A s \in saves : syncDataSaved(s)
            => split(storage')[1] = auth.salt /\ auth'.salt = auth.salt]_vars
    /\ [][auth'.salt # auth.salt
            => \/ handleLogin /\ login.pc = "created"
               \/ handleLogin /\ login.pc = "granted"
                             /\ auth'.salt = split(login.encryptedString)[1]
               \/ \E r \in BagToSet(rotations) : RotateEncrypted(r)
               \/ Reload]_vars

\* ------------------------------------------------------- repeated creation
\* The stored vault is removed from outside (site data cleared) while the
\* login page waits for input.
StorageCleared ==
    /\ ~auth.isAuthenticated /\ login.pc = "idle" /\ mode = "CLOUD"
    /\ storage # NoItem
    /\ storage' = NoItem
    /\ vault' = NoVault
    /\ UNCHANGED <<sessionVars, loginVars, rng, historyVars, dashboardVars>>

\* Vaults created one after the other on the same device.
NextCreate ==
    \/ switchToLocal
    \/ backToCloud
    \/ \E p \in Passphrases, k \in FormApiKeys : handleLocalCreate(p, k)
    \/ CreateDerived
    \/ CreateEncrypted
    \/ handleLogin
    \/ Reload
    \/ StorageCleared

SpecCreate == InitFrom({[blob |-> NoItem, vault |-> NoVault]}) /\ [][NextCreate]_vars

\* C14: the blob a create stores is the record sealed under the key, salt
\* and iv of its encryptData call, and any two create operations with the
\* same passphrase give, for each record, blobs that differ in their salt
\* field, in their nonce field and in their ciphertext field.
C14_CreateFresh ==
    /\ login.pc = "created" =>
          LET c == sealed[Len(sealed)]
          IN  storage = encryptData(login.data, c.key, ab2hex(c.key.salt), c.iv)
    /\ \A i, j \in 1..Len(sealed) :
          i < j /\ sealed[i].key.pw = sealed[j].key.pw
          => \A R \in Records :
               LET b1 == split(encryptData(R, sealed[i].key, ab2hex(sealed[i].key.salt),
                                           sealed[i].iv))
                   b2 == split(encryptData(R, sealed[j].key, ab2hex(sealed[j].key.salt),
                                           sealed[j].iv))
               IN  b1[1] # b2[1] /\ b1[2] # b2[2] /\ b1[3] # b2[3]

\* Two vaults have been created with the same passphrase and the same
\* record.
C14_CreatedTwice ==
    /\ Len(sealed) = 2
    /\ sealed[1].key.pw = sealed[2].key.pw
    /\ login.pc = "created"
    /\ vault.record = InitialData
    /\ storage = encryptData(InitialData, sealed[2].key, ab2hex(sealed[2].key.salt),
                             sealed[2].iv)


\* ------------------------------------------------------------- tampering
\* The bytes of the ciphertext field of a blob, and the blob with other
\* bytes in that field.
CipherBytes(blob) == hex2ab(split(blob)[3])
WithCipherBytes(blob, bytes) ==
    split(blob)[1] \o <<":">> \o split(blob)[2] \o <<":">> \o ab2hex(bytes)

\* What AES-GCM produced when the stored vault was sealed, were the stored
\* salt and nonce fields the ones it was sealed with.
SealedBytes ==
    AesGcmEncrypt(Pbkdf2(vault.pw, hex2ab(split(storage)[1])),
                  hex2ab(split(storage)[2]), str2ab(vault.record))

\* The stored blob is a sealed vault with exactly one byte of its
\* ciphertext field (ciphertext or tag) changed.
Tampered ==
    /\ vault.made /\ Len(split(storage)) = 3
    /\ LET found  == CipherBytes(storage)
           intact == SealedBytes
       IN  /\ Len(found) = Len(intact)
           /\ Cardinality({i \in 1..Len(intact) : found[i] # intact[i]}) = 1

TamperDeltas == {1, 16, 255}

\* Somebody with access to localStorage changes one byte of the ciphertext
\* field of the intact vault while the login page is idle.
Tamper ==
    /\ ~auth.isAuthenticated /\ login.pc = "idle"
    /\ vault.made
    /\ LET found == CipherBytes(storage)
       IN  /\ found = SealedBytes
           /\ \E i \in 1..Len(found), d \in TamperDeltas :
                  storage' = WithCipherBytes(storage,
                                 [found EXCEPT ![i] = (@ + d) % 256])
    /\ UNCHANGED <<vault, sessionVars, loginVars, rng, historyVars, dashboardVars>>

NextTamper ==
    \/ switchToLocal
    \/ backToCloud
    \/ \E p \in Passphrases, k \in FormApiKeys : handleLocalUnlock(p, k)
    \/ UnlockDerived
    \/ UnlockDecrypted
    \/ handleLogin
    \/ Reload
    \/ Tamper

SpecTamper == InitFrom(SoundInputs) /\ [][NextTamper]_vars

\* C15: once one byte of the ciphertext field of a stored vault has been
\* changed, an unlock with the passphrase the vault was sealed under is
\* rejected by the decryption (OperationError) and shows the failure
\* status; no record is granted, whether the sealed one or another, and the
\* session stays unauthenticated.
C15_TamperDetected ==
    /\ [](Tampered /\ login.encryptedString = storage => login.pc # "granted")
    /\ [](Tampered => ~auth.isAuthenticated /\ auth = InitialAuth /\ data = InitialData)
    /\ [][UnlockDecrypted /\ Tampered /\ RightPassphrase
            => /\ login'.error = "OperationError"
               /\ status' = DecryptionFailed
               /\ login'.pc = "idle" /\ login'.data = InitialData
               /\ auth' = InitialAuth]_vars

\* The right passphrase has been entered for a tampered vault, the key is
\* derived and the decryption is about to be rejected.
C15_TamperedUnlock ==
    /\ Tampered /\ RightPassphrase
    /\ login.pc = "decrypt"
    /\ decryptData(login.encryptedString, login.key).error = "OperationError"


\* --------------------------------------------------------- the blob format
IsHex(s) == \A i \in 1..Len(s) : IsHexChar(s[i])

\* Three colon-delimited fields: 32 hex characters of salt, 24 hex
\* characters of nonce, and a ciphertext field in hex.
WellFormed(blob) ==
    LET parts == split(blob)
    IN  /\ Len(parts) = 3
        /\ Len(parts[1]) = 2 * SaltBytes /\ IsHex(parts[1])
        /\ Len(parts[2]) = 2 * IvBytes /\ IsHex(parts[2])
        /\ Len(parts[3]) >= 2 * TagBytes /\ IsHex(parts[3])

\* A session may also find a vault whose salt field has one character that
\* is no hex digit.
SpecLenient ==
    InitFrom({[blob |-> NoItem, vault |-> NoVault], [blob |-> NonHexSalt, vault |-> NoVault]})
        /\ [][Next]_vars

\* C16: every blob written to storage, by create, persist or rotate, has
\* exactly three colon-delimited fields in the order salt, nonce,
\* ciphertext, with a salt field of 32 and a nonce field of 24 hex
\* characters.
C16_BlobFormat == [][storage' # storage => WellFormed(storage')]_vars


\* ------------------------------------------------------- secrets at rest
\* sub occurs in s as a run of consecutive elements.
Contains(s, sub) ==
    \E i \in 0..(Len(s) - Len(sub)) : \A j \in 1..Len(sub) : s[i + j] = sub[j]

\* Every key the session has derived and may still hold.
SessionKeys ==
    ({auth.cryptoKey, login.key} \cup {sealed[i].key : i \in 1..Len(sealed)}
        \cup {r.key : r \in BagToSet(rotations)} \cup {s.key : s \in saves}) \ {NoKey}

\* What AES-GCM sealing number i of this behaviour put together for record d.
SealedText(i, d) ==
    ab2hex(sealed[i].key.salt) \o <<":">> \o ab2hex(sealed[i].iv) \o <<":">>
        \o ab2hex(AesGcmEncrypt(sealed[i].key, sealed[i].iv, str2ab(d)))

\* C17: no key of the session can be exported, the stored blob never
\* contains the bits of one, and a blob written by create, persist or
\* rotate is made of nothing but the salt the key was derived with, the
\* nonce of one sealing and the AES-GCM output of that sealing for a record.
C17_KeyNeverStored ==
    /\ \A k \in SessionKeys :
           /\ exportKey(k) = <<>>
           /\ LET bits == ab2hex(KeyBits(k)) IN ~Contains(storage, bits)
    /\ \/ storage \in {NoItem, PriorBlob, TwoFields}
       \/ vault.made /\ \E i \in 1..Len(sealed) : storage = SealedText(i, vault.record)

\* The vault of an earlier session was unlocked, an autosave wrote it, and
\* a rotation has then written it under the key the session now holds.
C17_Rewritten ==
    /\ Len(sealed) = 2
    /\ sealed[1].key = PriorKey.key
    /\ sealed[2].key = auth.cryptoKey /\ sealed[2].key # sealed[1].key
    /\ split(storage)[1] = auth.salt /\ split(storage)[2] = ab2hex(sealed[2].iv)
    /\ idleTimers >= 1


\* C18: neither the stored blob nor the salt the session keeps contains a
\* passphrase, as characters or as hex of its bytes, and the key the
\* session keeps gives nothing away; AuthState has no other field that
\* could hold text.
C18_PassphraseNeverStored ==
    /\ exportKey(auth.cryptoKey) = <<>>
    /\ \A p \in Passphrases \ {""} :
           LET text == PwText(p)
               hex  == ab2hex(PwBytes(p))
           IN  /\ ~Contains(storage, text) /\ ~Contains(storage, hex)
               /\ ~Contains(auth.salt, text) /\ ~Contains(auth.salt, hex)

\* A vault created with one passphrase has been rotated to another: the
\* session holds the new key and salt and the stored blob is the rotation's.
C18_Rotated ==
    /\ auth.isAuthenticated /\ Len(sealed) = 2
    /\ sealed[1].key.pw = "p1" /\ sealed[1].key.salt # PriorKey.key.salt
    /\ sealed[2].key.pw = "p2" /\ auth.cryptoKey = sealed[2].key
    /\ vault.made /\ vault.pw = "p2"
    /\ storage = SealedText(2, vault.record)


\* ---------------------------------------------------------------- rotation
\* The step in which rotation r stores its blob and updates the session.
Rotated(r) ==
    /\ BagIn(r, rotations) /\ r.pc = "encrypt"
    /\ rotations' = rotations (-) SetToBag({r})
    /\ auth'.isAuthenticated

C20_DeterministicReopen ==
    vault.made =>
        LET salt == split(storage)[1]
        IN  /\ \A c \in 0..MaxDraws :
                   LET dk == deriveKey(vault.pw, salt, RandomBytes(SaltBytes, c))
                   IN  /\ dk.salt = salt
                       /\ dk.key = Pbkdf2(vault.pw, hex2ab(salt))
                       /\ decryptData(storage, dk.key).error = "none"
                       /\ decryptData(storage, dk.key).data = vault.record
            /\ unlocks(vault.pw, storage)


\* ------------------------------------------------------- failing autosaves
\* A syncData whose catch block re-arms the debounce timer.
syncDataFailedRetry(s) ==
    /\ s \in saves /\ ~s.cloud
    /\ saves' = saves \ {s}
    /\ syncStatus' = "ERROR"
    /\ timers' = <<[auth |-> auth, data |-> s.data]>>
    /\ UNCHANGED <<storage, vault, auth, data, idleTimers, loginVars, rotations, rng,
                   historyVars, dashboardVars>>

\* encryptData rejects in syncData: the catch block logs and sets ERROR;
\* nothing is written.
syncDataFailed(s) ==
    /\ s \in saves /\ ~s.cloud
    /\ saves' = saves \ {s}
    /\ syncStatus' = "ERROR"
    /\ UNCHANGED <<storage, vault, auth, data, idleTimers, timers, loginVars,
                   rotations, rng, historyVars, dashboardVars>>

NextFail ==
    \/ NextModes
    \/ \E s \in saves : syncDataFailed(s)

SpecFail == InitFrom(SoundInputs) /\ [][NextFail]_vars

\* C21: a failed unlock and a failed persist start nothing: the step that
\* fails leaves no unlock in progress, arms no timer and puts no persist in
\* flight.  An unlock starts only by a submission of the form, a persist
\* only when a debounce timer fires, and a timer is armed only by a step
\* that changes the record or the auth (a cloud save that returns a new sha
\* changes auth.sha).
C21_NoRetry ==
    /\ [][login.pc # "idle" /\ login'.pc = "idle" /\ login'.error # "none"
            => /\ ~loading'
               /\ UNCHANGED <<timers, saves, auth, data, storage>>]_vars
    /\ [][syncStatus' = "ERROR" /\ saves' # saves
            => /\ saves' \subseteq saves
               /\ UNCHANGED <<timers, login, auth, data, storage>>]_vars
    /\ [][login.pc = "idle" /\ login'.pc # "idle"
            => \E p \in Passphrases \ {""}, k \in FormApiKeys :
                   login'.passphrase = p /\ login'.customApiKey = k
                       /\ mode = "LOCAL_UNLOCK" /\ ~loading]_vars
    /\ [][~(saves' \subseteq saves) => Len(timers) > 0 /\ timers' = Tail(timers)]_vars
    /\ [][timers' # timers /\ timers' # <<>>
            => \/ data' # data \/ auth' # auth
               \/ syncStatus' = "SAVED" /\ \E s \in saves \ saves' : s.cloud]_vars

\* An autosave of a local encrypted session has failed, and no timer is
\* armed and no persist in flight.
C21_PersistFailed ==
    /\ syncStatus = "ERROR" /\ LocalEncrypted(auth)
    /\ sealed # <<>>
    /\ timers = <<>> /\ saves = {}


\* -------------------------------------------------- storage and the session
\* C22: while a local session that holds a key has no autosave and no
\* rotation in flight, the stored blob opens under the session's key and
\* its salt field is the session's salt.
C22_StorageFollowsSession ==
    /\ auth.isAuthenticated /\ LocalEncrypted(auth)
    /\ saves = {} /\ rotations = EmptyBag
    => /\ decryptData(storage, auth.cryptoKey).error = "none"
       /\ split(storage)[1] = auth.salt


\* C23: when a rotation completes, the passphrase it was submitted with is
\* one the unlock form acts on, and the blob the rotation stored opens
\* with it.
C23_RotatedVaultUnlocks ==
    [][\A r \in BagToSet(rotations) :
          Rotated(r) => /\ r.newPass # ""
                        /\ unlocks(r.newPass, storage')]_vars


\* ------------------------------------------------------ what is written
\* Every operation that writes the vault (create, autosave, rotation) in
\* sessions of every mode (cloud, local with a key, local without one); the
\* record changes only by the logins.
NextWriters ==
    \/ switchToLocal
    \/ backToCloud
    \/ \E p \in Passphrases, k \in FormApiKeys : handleLocalCreate(p, k)
    \/ CreateDerived
    \/ CreateEncrypted
    \/ handleLogin
    \/ \E d \in {InitialData, PriorRecord}, k \in FormApiKeys : handleCloudSubmit(d, k)
    \/ disconnect
    \/ handleGitHubConnect
    \/ syncData
    \/ \E s \in saves : syncDataSaved(s)
    \/ \E s \in saves, ok, sha \in BOOLEAN : syncDataCloud(s, ok, sha)
    \/ syncIdle
    \/ \E p, q \in Passphrases : handleChangePassword(p, q)
    \/ \E r \in BagToSet(rotations) : RotateDerived(r)
    \/ \E r \in BagToSet(rotations) : RotateEncrypted(r)

SpecWriters == InitFrom({[blob |-> NoItem, vault |-> NoVault]}) /\ [][NextWriters]_vars

\* C24: every value written to the storage key is what AES-GCM made of the
\* record in one sealing (salt, nonce, ciphertext and tag in hex), never
\* the record itself; it is written by a create, by an autosave that holds
\* a key and a salt, or by a rotation, and autosaves of cloud sessions and
\* of local sessions without a key write nothing there.
C24_OnlySealedBlobs ==
    /\ [][storage' # storage
            => /\ vault'.made
               /\ \E i \in 1..Len(sealed) : storage' = SealedText(i, vault'.record)
               /\ \/ login.pc = "cencrypt"
                  \/ \E s \in saves \ saves' : ~s.cloud /\ s.key # NoKey /\ s.salt # <<>>
                  \/ \E r \in BagToSet(rotations) : Rotated(r)]_vars
    /\ [](\A s \in saves : s.cloud \/ (s.key # NoKey /\ s.salt # <<>>))
    /\ [][(\E s \in saves \ saves' : s.cloud) => storage' = storage]_vars
    /\ [][syncData /\ ~LocalEncrypted(Head(timers).auth)
            => storage' = storage /\ \A s \in saves' \ saves : s.cloud]_vars

\* A vault was created, the session connected to GitHub, and a second
\* sealing (an autosave or a rotation) has been written.
C24_WrittenAcrossModes ==
    /\ auth.isAuthenticated /\ ~auth.isLocal /\ auth.cryptoKey # NoKey
    /\ vault.made /\ Len(sealed) = 2
    /\ storage = SealedText(2, vault.record)


\* ------------------------------------------------------------ the create form
\* C25: the login page enters create mode only from switchToLocal with
\* nothing in storage and unlock mode only with a blob in storage; while
\* the create form is shown, and while a create is in progress, storage
\* holds nothing, so the write of a create replaces no vault; and a create
\* is started only from the create form.
C25_CreateOnlyWhenEmpty ==
    /\ [][mode' # mode /\ mode' = "LOCAL_CREATE" => storage = NoItem /\ mode = "CLOUD"]_vars
    /\ [][mode' # mode /\ mode' = "LOCAL_UNLOCK" => storage # NoItem /\ mode = "CLOUD"]_vars
    /\ [](mode = "LOCAL_CREATE" => storage = NoItem \/ login.pc = "created")
    /\ [](login.pc \in {"cderive", "cencrypt"} => mode = "LOCAL_CREATE" /\ storage = NoItem)
    /\ [][login.pc = "cencrypt" /\ login'.pc = "created"
            => storage = NoItem /\ ~vault.made /\ storage' # NoItem]_vars

\* A vault created earlier in this behaviour is in storage and the login
\* page, entered again, offers the unlock form.
C25_UnlockOffered ==
    /\ mode = "LOCAL_UNLOCK" /\ ~auth.isAuthenticated
    /\ sealed # <<>> /\ vault.made /\ storage # NoItem


\* ------------------------------------------------------- rejected rotations
\* C26: submitted with a confirmation that differs from the new
\* passphrase, or in a session that holds no key, handleChangePassword
\* changes neither the stored blob nor the session's key and salt, and it
\* starts no rotation that would; every rotation in progress was started
\* in a session holding a key.
C26_RejectedRotation ==
    /\ \A p, q \in Passphrases :
           p # q \/ auth.cryptoKey = NoKey
               => ~ENABLED (/\ handleChangePassword(p, q)
                            /\ \/ storage' # storage \/ auth' # auth
                               \/ rotations' # rotations)
    /\ \A r \in BagToSet(rotations) : r.auth.cryptoKey # NoKey /\ r.auth.isLocal

\* The change-passphrase form can be submitted in a local session that
\* holds no key (a cloud session after DISCONNECT) while a vault is stored.
C26_NoKeySession ==
    /\ auth.isAuthenticated /\ auth.isLocal /\ auth.cryptoKey = NoKey
    /\ vault.made
    /\ ENABLED handleChangePassword("p1", "p1")


\* The writers of every mode, started with or without a stored vault.
SpecRotate == InitFrom(SoundInputs) /\ [][NextWriters]_vars


\* ------------------------------------------------------------ the debounce
\* C27: at most one autosave debounce timer is pending at any time, and it
\* holds the record and the session of the latest render; every change of
\* the record or of the session clears the pending timer and, while
\* authenticated, arms one new timer; an autosave run starts only when the
\* pending timer fires, one run for one timer.
C27_SingleDebounce ==
    /\ [](Len(timers) <= 1)
    /\ [](timers # <<>> => timers[1].auth = auth /\ timers[1].data = data)
    /\ [][data' # data \/ auth' # auth
            => timers' = IF auth'.isAuthenticated
                         THEN <<[auth |-> auth', data |-> data']>> ELSE <<>>]_vars
    /\ [][~(saves' \subseteq saves)
            => /\ Len(timers) = 1 /\ timers' = <<>>
               /\ Cardinality(saves' \ saves) = 1]_vars

\* A timer is pending for a record that was edited, and a further edit is
\* about to replace it.
C27_EditWhilePending ==
    /\ Len(timers) = 1 /\ timers[1].data # InitialData /\ timers[1].data # PriorRecord
    /\ \E wl \in Watchlists : ENABLED (editWatchlist(wl) /\ timers' # timers)


\* ------------------------------------------------- completion of autosaves
\* The sessions of every mode under the scheduling of the browser: a timer
\* that is due fires, and a pending encryptData or saveUserData promise
\* settles.
SpecLive ==
    /\ InitFrom(SoundInputs) /\ [][NextFail]_vars
    /\ WF_vars(syncData)
    /\ WF_vars(\E s \in saves : syncDataFailed(s) \/ syncDataSaved(s))
    /\ WF_vars(\E s \in saves, ok, sha \in BOOLEAN : syncDataCloud(s, ok, sha))
    /\ WF_vars(syncIdle)

\* C28: every autosave run that sets syncStatus to SYNCING eventually sets
\* it to SAVED or ERROR.
C28_SyncingEnds == (syncStatus = "SYNCING") ~> (syncStatus \in {"SAVED", "ERROR"})


\* --------------------------------------------------------------- dashboard
\* The longest watchlist handleAddStock appends to.
MaxWatchlist == 8

\* The texts submitted in the Add Stock modal: nothing, one character, the
\* first symbol of INITIAL_WATCHLIST, and a symbol that is not in it.
FormSymbols ==
    {<<>>, <<"X">>, INITIAL_WATCHLIST[1], <<"N", "E", "W", ".", "B", "O">>}

\* isValidSymbol of stockService.ts.
isValidSymbol(symbol) == Len(symbol) > 1

\* Array.prototype.includes.
includes(list, symbol) == \E i \in 1..Len(list) : list[i] = symbol

\* watchlist.filter((_, i) => i !== index), index counted from 0.
filterIndex(list, index) ==
    IF index \in 0..(Len(list) - 1)
    THEN SubSeq(list, 1, index) \o SubSeq(list, index + 2, Len(list))
    ELSE list

\* Math.max.
MathMax(a, b) == IF a >= b THEN a ELSE b

\* The keyboard shortcuts are disabled outside a session and while a modal
\* is open.
ShortcutsEnabled == auth.isAuthenticated /\ modalType = "NONE"

\* setWatchlist re-renders App: the record changes and the sync effect runs
\* again.
SetWatchlist(newWatchlist) ==
    /\ watchlist' = newWatchlist
    /\ data' = [data EXCEPT !.wl = WlClass(newWatchlist)]
    /\ timers' = SyncEffect(timers, auth, data')

\* onUp: setSelectedIndex(prev => (prev > 0 ? prev - 1 : watchlist.length - 1)).
onUp ==
    /\ ShortcutsEnabled
    /\ selectedIndex' = IF selectedIndex > 0 THEN selectedIndex - 1
                        ELSE Len(watchlist) - 1
    /\ UNCHANGED <<storage, vault, sessionVars, loginVars, rng, historyVars, watchlist,
                   modalType, validationError>>

\* onDown: setSelectedIndex(prev => (prev < watchlist.length - 1 ? prev + 1 : 0)).
onDown ==
    /\ ShortcutsEnabled
    /\ selectedIndex' = IF selectedIndex < Len(watchlist) - 1 THEN selectedIndex + 1
                        ELSE 0
    /\ UNCHANGED <<storage, vault, sessionVars, loginVars, rng, historyVars, watchlist,
                   modalType, validationError>>

\* onAdd on the dashboard: the Add Stock modal opens.
onAdd ==
    /\ ShortcutsEnabled
    /\ modalType' = "ADD_STOCK"
    /\ UNCHANGED <<storage, vault, sessionVars, loginVars, rng, historyVars, watchlist,
                   selectedIndex, validationError>>

\* onClose of the Add Stock modal (Escape).
onClose ==
    /\ modalType = "ADD_STOCK"
    /\ modalType' = "NONE"
    /\ validationError' = ""
    /\ UNCHANGED <<storage, vault, sessionVars, loginVars, rng, historyVars, watchlist,
                   selectedIndex>>

\* A handleAddStock that does not look for the symbol in the watchlist.
handleAddStockUnchecked(symbol) ==
    /\ auth.isAuthenticated /\ modalType = "ADD_STOCK"
    /\ IF ~isValidSymbol(symbol)
       THEN /\ validationError' = "Invalid Format. Must end with .NS or .BO"
            /\ UNCHANGED <<watchlist, modalType, data, timers>>
       ELSE /\ Len(watchlist) < MaxWatchlist
            /\ SetWatchlist(Append(watchlist, symbol))
            /\ modalType' = "NONE"
            /\ validationError' = ""
    /\ UNCHANGED <<storage, vault, auth, syncStatus, idleTimers, saves, rotations,
                   loginVars, rng, historyVars, selectedIndex>>

\* handleAddStock, the onSubmit of the Add Stock modal (Enter).
handleAddStock(symbol) ==
    /\ auth.isAuthenticated /\ modalType = "ADD_STOCK"
    /\ IF ~isValidSymbol(symbol)
       THEN /\ validationError' = "Invalid Format. Must end with .NS or .BO"
            /\ UNCHANGED <<watchlist, modalType, data, timers>>
       ELSE IF includes(watchlist, symbol)
       THEN /\ validationError' = "Stock already in watchlist."
            /\ UNCHANGED <<watchlist, modalType, data, timers>>
       ELSE /\ Len(watchlist) < MaxWatchlist
            /\ SetWatchlist(Append(watchlist, symbol))
            /\ modalType' = "NONE"
            /\ validationError' = ""
    /\ UNCHANGED <<storage, vault, auth, syncStatus, idleTimers, saves, rotations,
                   loginVars, rng, historyVars, selectedIndex>>

\* handleRemoveStock, the onDelete of the dashboard.
handleRemoveStock ==
    /\ ShortcutsEnabled
    /\ IF Len(watchlist) = 0
       THEN UNCHANGED <<watchlist, selectedIndex, data, timers>>
       ELSE LET newWatchlist == filterIndex(watchlist, selectedIndex)
            IN  /\ SetWatchlist(newWatchlist)
                /\ selectedIndex' =
                       IF selectedIndex >= Len(newWatchlist)
                       THEN MathMax(0, Len(newWatchlist) - 1)
                       ELSE selectedIndex
    /\ UNCHANGED <<storage, vault, auth, syncStatus, idleTimers, saves, rotations,
                   loginVars, rng, historyVars, modalType, validationError>>

\* A cloud session on the dashboard: the keys that move the selection, the
\* Add Stock modal and the removal. Each change of the watchlist arms the
\* autosave timer; the autosave itself is followed in SpecModes.
NextDashboard ==
    \/ handleCloudSubmit(InitialData, "")
    \/ onUp
    \/ onDown
    \/ onAdd
    \/ onClose
    \/ \E symbol \in FormSymbols : handleAddStock(symbol)
    \/ handleRemoveStock

SpecDashboard == InitFrom({[blob |-> NoItem, vault |-> NoVault]}) /\ [][NextDashboard]_vars

\* C29: after any sequence of up, down, add-stock and remove-stock actions,
\* 0 <= selectedIndex and selectedIndex < max(1, watchlist.length).
C29_SelectedInBounds ==
    0 <= selectedIndex /\ selectedIndex < MathMax(1, Len(watchlist))


\* C30: the watchlist holds no symbol twice, and submitting a symbol that is
\* already in it sets the validation error, leaves the modal open and leaves
\* the watchlist as it is.
C30_NoDuplicates ==
    /\ [](\A i, j \in 1..Len(watchlist) : watchlist[i] = watchlist[j] => i = j)
    /\ [][\A symbol \in FormSymbols :
            handleAddStock(symbol) /\ isValidSymbol(symbol) /\ includes(watchlist, symbol)
                => /\ watchlist' = watchlist
                   /\ validationError' = "Stock already in watchlist."
                   /\ modalType' = "ADD_STOCK"]_vars
    /\ [][watchlist' # watchlist /\ Len(watchlist') > Len(watchlist)
            => /\ ~includes(watchlist, watchlist'[Len(watchlist')])
               /\ SubSeq(watchlist', 1, Len(watchlist)) = watchlist]_vars

\* A symbol was removed and added again, and a submission of a symbol that
\* is in the watchlist has been rejected.
C30_DuplicateRejected ==
    /\ validationError = "Stock already in watchlist."
    /\ modalType = "ADD_STOCK"
    /\ Len(watchlist) >= Len(INITIAL_WATCHLIST)
    /\ watchlist[Len(watchlist)] = INITIAL_WATCHLIST[1]

====
